---- MODULE Spec2Model ----
(***************************************************************************)
(* Model of ExcelClient (src/excel_client.py): one instance bound to one   *)
(* file path, whose load_excel reads a sheet into self.dataframe, selects  *)
(* the FEATURES columns, drops the rows without a Name, scans for missing  *)
(* values and converts the column datatypes.                               *)
(*                                                                         *)
(* A DataFrame is a record  [columns, index, data]: the column labels, the *)
(* row labels and the rows (each a sequence of cells aligned with the      *)
(* columns).  A cell is [t, v]: t is the runtime type of the value         *)
(* ("na" for NaN) and v its literal text.                                  *)
(***************************************************************************)
EXTENDS Integers, Sequences, FiniteSets, TLC

\* ------------------------------------------------------------------ bounds
\* Data rows of a sheet
MaxRows == 2
\* Data rows of the long sheets
MaxWide == 61

\* ------------------------------------------------------------------- cells
NA == [t |-> "na", v |-> ""]
StrCell(s) == [t |-> "str", v |-> s]
IntCell(s) == [t |-> "int", v |-> s]
FloatCell(s) == [t |-> "float", v |-> s]

\* pandas.isna on one cell
IsNa(cell) == cell.t = "na"

\* Text that Python's int() accepts
IntLiterals == {"5", "7", "2"}

\* int(2.5) == 2 : truncation of the float literals of the model
TruncTable == [s \in {"2.5"} |-> "2"]

\* ---------------------------------------------------------------- frames
EmptyDF == [columns |-> <<>>, index |-> <<>>, data |-> <<>>]

RangeIndex(n) == [i \in 1..n |-> i - 1]

\* Position of a label in a sequence of labels (0 when absent)
RECURSIVE PosFrom(_, _, _)
PosFrom(seq, x, i) ==
    IF i > Len(seq) THEN 0
    ELSE IF seq[i] = x THEN i
    ELSE PosFrom(seq, x, i + 1)

GetLoc(columns, name) == PosFrom(columns, name, 1)

\* ---------------------------------------------------------------- schema
FEATURES == << [name |-> "Name", dtype |-> "str"],
               [name |-> "Qty",  dtype |-> "int"] >>

FeatureKeys == [i \in 1..Len(FEATURES) |-> FEATURES[i].name]

\* pandas' display.max_rows and display.min_rows
DisplayMaxRows == 60
DisplayMinRows == 10

\* ------------------------------------------------------------- the file
file_path == "data.xlsx"

Headers == { <<"Name", "Qty">>, <<"Qty", "Extra", "Name">>, <<"Name", "Extra">> }

QtyCells == {NA, IntCell("5"), StrCell("x"), FloatCell("2.5")}

\* The data rows of the model, by their Name and Qty cells: rows without a
\* Name, rows with a text Name and any Qty, and a row with a numeric Name
RowKinds ==
    [name : {NA}, qty : {NA, IntCell("5"), StrCell("x")}] \cup
    [name : {StrCell("A")}, qty : QtyCells] \cup
    {[name |-> IntCell("7"), qty |-> IntCell("5")]}

SeqsUpTo(S, n) == UNION { [1..k -> S] : k \in 0..n }

LayoutRow(h, rk) ==
    [i \in 1..Len(h) |->
        IF h[i] = "Name" THEN rk.name
        ELSE IF h[i] = "Qty" THEN rk.qty
        ELSE StrCell("x")]

HeaderRow(h) == [i \in 1..Len(h) |-> StrCell(h[i])]

Grids ==
    {<<>>} \cup
    { <<HeaderRow(h)>> \o [i \in 1..Len(rs) |-> LayoutRow(h, rs[i])] :
        h \in Headers, rs \in SeqsUpTo(RowKinds, MaxRows) }

\* The second sheet of every readable file: a row without a quantity
Sheet2Grid ==
    << HeaderRow(<<"Name", "Qty">>),
       <<StrCell("B"), IntCell("5")>>,
       <<StrCell("C"), NA>> >>

\* The sheet names a caller passes; "Nope" is in no file
SheetNames == {"Sheet1", "Sheet2", "Nope"}

Files ==
    { [status |-> "absent", sheets |-> <<>>],
      [status |-> "corrupt", sheets |-> <<>>] } \cup
    { [status |-> "ok", sheets |-> <<g, Sheet2Grid>>] : g \in Grids }

\* Long sheets: every row has a Name, and either every row or no row has a
\* quantity
WideGrid(n, qty) ==
    <<HeaderRow(<<"Name", "Qty">>)>> \o [i \in 1..n |-> <<StrCell("A"), qty>>]

WideFiles ==
    { [status |-> "ok", sheets |-> <<WideGrid(n, qty), Sheet2Grid>>] :
        n \in {1, DisplayMaxRows, MaxWide}, qty \in {NA, IntCell("5")} }

\* The sheets of a workbook, by name
SheetPos(sheet_name) ==
    IF sheet_name = "Sheet1" THEN 1
    ELSE IF sheet_name = "Sheet2" THEN 2
    ELSE 0

\* --------------------------------------------------------- pandas pieces
\* An exception as the caller sees it.  site tells the raise statements
\* apart; cause is the exception chained with "from e"; rows are the rows
\* printed in the message.
NoError == [type |-> "none", site |-> "", cause |-> "", path |-> "", rows |-> EmptyDF]

ReadOk(df) == [ok |-> TRUE, exc |-> "", df |-> df]
ReadRaised(exc) == [ok |-> FALSE, exc |-> exc, df |-> EmptyDF]

\* header=0 of pandas.read_excel, which is also its default
DefaultHeader == 0
\* header=None of pandas.read_excel
NoHeader == -1

PositionalNames == <<"0", "1", "2", "3">>

\* pd.read_excel(path, sheet_name=..., header=...) on the file of the model
ReadExcel(file, sheet_name, header) ==
    IF file.status = "absent" THEN ReadRaised("FileNotFoundError")
    ELSE IF file.status = "corrupt" THEN ReadRaised("BadZipFile")
    ELSE IF SheetPos(sheet_name) = 0 THEN ReadRaised("WorksheetNotFound")
    ELSE LET grid == file.sheets[SheetPos(sheet_name)]
         IN  IF grid = <<>> THEN ReadOk(EmptyDF)
             ELSE IF header = NoHeader
             THEN ReadOk([columns |-> [i \in 1..Len(grid[1]) |-> PositionalNames[i]],
                          index   |-> RangeIndex(Len(grid)),
                          data    |-> grid])
             ELSE ReadOk([columns |-> [i \in 1..Len(grid[1]) |-> grid[1][i].v],
                          index   |-> RangeIndex(Len(grid) - 1),
                          data    |-> Tail(grid)])

\* df.loc[:, keys] : the columns named by keys, in the order of keys
MissingKeys(df, keys) ==
    { k \in 1..Len(keys) : GetLoc(df.columns, keys[k]) = 0 }

LocColumns(df, keys) ==
    [columns |-> keys,
     index   |-> df.index,
     data    |-> [r \in 1..Len(df.data) |->
                    [k \in 1..Len(keys) |-> df.data[r][GetLoc(df.columns, keys[k])]]]]

\* df[name].notna()
Notna(df, name) ==
    [r \in 1..Len(df.data) |-> ~IsNa(df.data[r][GetLoc(df.columns, name)])]

\* df.isna().any(axis=1)
IsnaAnyAxis1(df) ==
    [r \in 1..Len(df.data) |-> \E k \in 1..Len(df.columns) : IsNa(df.data[r][k])]

\* mask.any()
MaskAny(mask) == \E r \in 1..Len(mask) : mask[r]

\* Positions kept by a boolean mask, in order
RECURSIVE KeptFrom(_, _)
KeptFrom(mask, i) ==
    IF i > Len(mask) THEN <<>>
    ELSE IF mask[i] THEN <<i>> \o KeptFrom(mask, i + 1)
    ELSE KeptFrom(mask, i + 1)

\* df[mask] / df.loc[mask] : the kept rows under their old labels
BoolIndex(df, mask) ==
    LET kept == KeptFrom(mask, 1)
    IN  [columns |-> df.columns,
         index   |-> [j \in 1..Len(kept) |-> df.index[kept[j]]],
         data    |-> [j \in 1..Len(kept) |-> df.data[kept[j]]]]

\* df.reset_index(drop=True)
ResetIndex(df) == [df EXCEPT !.index = RangeIndex(Len(df.data))]

\* str(df), as the f-string of the error message formats the frame: the rows
\* it prints.  A frame of more than display.max_rows rows is printed as its
\* first and last display.min_rows / 2 rows.
ReprRows(df) ==
    IF Len(df.data) > DisplayMaxRows
    THEN LET h == DisplayMinRows \div 2
             n == Len(df.data)
             shown == [j \in 1..(2 * h) |-> IF j <= h THEN j ELSE n - 2 * h + j]
         IN  [columns |-> df.columns,
              index   |-> [j \in 1..(2 * h) |-> df.index[shown[j]]],
              data    |-> [j \in 1..(2 * h) |-> df.data[shown[j]]]]
    ELSE df

\* One value converted to a dtype, as Series.astype does
AsType(cell, dtype) ==
    IF dtype = "str"
    THEN [ok |-> TRUE, cell |-> StrCell(IF IsNa(cell) THEN "nan" ELSE cell.v)]
    ELSE IF cell.t = "int" THEN [ok |-> TRUE, cell |-> cell]
    ELSE IF cell.t = "float" THEN [ok |-> TRUE, cell |-> IntCell(TruncTable[cell.v])]
    ELSE IF cell.t = "str" /\ cell.v \in IntLiterals THEN [ok |-> TRUE, cell |-> IntCell(cell.v)]
    ELSE [ok |-> FALSE, cell |-> cell]

\* df.astype(FEATURES): fails when one value cannot be converted
AstypeFails(df, features) ==
    \E r \in 1..Len(df.data), k \in 1..Len(features) :
        ~AsType(df.data[r][GetLoc(df.columns, features[k].name)], features[k].dtype).ok

\* Mutant: the converted frame is not assigned back
AstypeDiscarded(df, features) == df

Astype(df, features) ==
    [df EXCEPT !.data =
        [r \in 1..Len(df.data) |->
            [c \in 1..Len(df.columns) |->
                LET k == GetLoc([i \in 1..Len(features) |-> features[i].name], df.columns[c])
                IN  IF k = 0 THEN df.data[r][c]
                    ELSE AsType(df.data[r][c], features[k].dtype).cell]]]

\* ------------------------------------------------------------------ state
VARIABLES
    disk,       \* the file at file_path (absent, corrupt, or one sheet)
    dataframe,  \* self.dataframe
    pc,         \* position inside load_excel
    args,       \* arguments of the running / last call
    ret,        \* what the last call gave its caller
    stages,     \* the stages the running / last call has executed
    before,     \* self.dataframe before the last executed stage
    atCall,     \* self.dataframe when the running / last call started
    first       \* the first finished call and its outcome

vars == <<disk, dataframe, pc, args, ret, stages, before, atCall, first>>

NoArgs == [sheet_name |-> "", header |-> TRUE, return_output |-> FALSE]
NoRet == [status |-> "none", some |-> FALSE, value |-> EmptyDF, error |-> NoError]
Pending == [NoRet EXCEPT !.status = "pending"]

\* __init__
Init ==
    /\ disk \in Files
    /\ dataframe = EmptyDF
    /\ pc = "idle"
    /\ args = NoArgs
    /\ ret = NoRet
    /\ stages = <<>>
    /\ before = EmptyDF
    /\ atCall = EmptyDF
    /\ first = [set |-> FALSE, args |-> NoArgs, ret |-> NoRet, table |-> EmptyDF]

\* The call is over: the caller holds r
Finish(r, table) ==
    /\ pc' = "idle"
    /\ ret' = r
    /\ first' = IF first.set THEN first
                ELSE [set |-> TRUE, args |-> args, ret |-> r, table |-> table]

Raise(e) == Finish([status |-> "raised", some |-> FALSE, value |-> EmptyDF, error |-> e], EmptyDF)

\* load_excel is entered
LoadExcel(sheet_name, header, return_output) ==
    /\ pc = "idle"
    /\ args' = [sheet_name |-> sheet_name, header |-> header, return_output |-> return_output]
    /\ pc' = "to_df"
    /\ ret' = Pending
    /\ stages' = <<>>
    /\ atCall' = dataframe
    /\ before' = dataframe
    /\ UNCHANGED <<disk, dataframe, first>>

\* Mutant: the generic except clause catches everything
ToDfExceptGeneric(exc) ==
    [type |-> "ValueError", site |-> "readout", cause |-> exc,
     path |-> "", rows |-> EmptyDF]

\* Mutant: the generic clause raises without the underlying exception
ToDfExceptNoCause(exc) ==
    IF exc = "FileNotFoundError"
    THEN [type |-> "FileNotFoundError", site |-> "not_found", cause |-> exc,
          path |-> file_path, rows |-> EmptyDF]
    ELSE [type |-> "ValueError", site |-> "readout", cause |-> "",
          path |-> "", rows |-> EmptyDF]

\* The two except clauses of _to_df
ToDfExcept(exc) ==
    IF exc = "FileNotFoundError"
    THEN [type |-> "FileNotFoundError", site |-> "not_found", cause |-> exc,
          path |-> file_path, rows |-> EmptyDF]
    ELSE [type |-> "ValueError", site |-> "readout", cause |-> exc,
          path |-> "", rows |-> EmptyDF]

\* The read_excel call of _to_df, by the header flag
ToDfRead(file, sheet_name, header) ==
    IF header THEN ReadExcel(file, sheet_name, 0)
    ELSE ReadExcel(file, sheet_name, DefaultHeader)

\* Mutant: a frame already held is kept in place of a new read
ToDfCached ==
    /\ pc = "to_df"
    /\ stages' = Append(stages, "read")
    /\ before' = dataframe
    /\ LET r == IF dataframe # EmptyDF THEN ReadOk(dataframe)
                ELSE ToDfRead(disk, args.sheet_name, args.header)
       IN  IF r.ok
           THEN /\ dataframe' = r.df
                /\ pc' = "select"
                /\ UNCHANGED <<ret, first>>
           ELSE /\ Raise(ToDfExcept(r.exc))
                /\ UNCHANGED dataframe
    /\ UNCHANGED <<disk, args, atCall>>

\* _to_df
ToDf ==
    /\ pc = "to_df"
    /\ stages' = Append(stages, "read")
    /\ before' = dataframe
    /\ LET r == ToDfRead(disk, args.sheet_name, args.header)
       IN  IF r.ok
           THEN /\ dataframe' = r.df
                /\ pc' = "select"
                /\ UNCHANGED <<ret, first>>
           ELSE /\ Raise(ToDfExcept(r.exc))
                /\ UNCHANGED dataframe
    /\ UNCHANGED <<disk, args, atCall>>

\* _format_df, the selection of the features
FormatDfSelect ==
    /\ pc = "select"
    /\ stages' = Append(stages, "project")
    /\ before' = dataframe
    /\ IF MissingKeys(dataframe, FeatureKeys) # {}
       THEN /\ Raise([type |-> "KeyError", site |-> "not_in_index", cause |-> "",
                      path |-> "", rows |-> EmptyDF])
            /\ UNCHANGED dataframe
       ELSE /\ dataframe' = LocColumns(dataframe, FeatureKeys)
            /\ pc' = "filter"
            /\ UNCHANGED <<ret, first>>
    /\ UNCHANGED <<disk, args, atCall>>

\* Mutant: the filter without reset_index
FilterRowsKeepLabels(df) == BoolIndex(df, Notna(df, "Name"))

\* The rows _format_df keeps
FilterRows(df) == ResetIndex(BoolIndex(df, Notna(df, "Name")))

\* _format_df, the filter on 'Name'
FormatDfFilter ==
    /\ pc = "filter"
    /\ stages' = Append(stages, "filter")
    /\ before' = dataframe
    /\ dataframe' = FilterRows(dataframe)
    /\ pc' = "validate"
    /\ UNCHANGED <<disk, args, ret, atCall, first>>

\* Mutant: the scan finds nothing, the conversion runs on the unscanned table
MissingValuesSkipped(df) == [r \in 1..Len(df.data) |-> FALSE]

\* _validate_data, the scan for missing values
MissingValues(df) == IsnaAnyAxis1(df)

ValidateDataMissing ==
    /\ pc = "validate"
    /\ stages' = Append(stages, "validate")
    /\ before' = dataframe
    /\ LET missing_values == MissingValues(dataframe)
       IN  IF MaskAny(missing_values)
           THEN Raise([type |-> "ValueError", site |-> "missing_values", cause |-> "",
                       path |-> "", rows |-> ReprRows(BoolIndex(dataframe, missing_values))])
           ELSE /\ pc' = "astype"
                /\ UNCHANGED <<ret, first>>
    /\ UNCHANGED <<disk, dataframe, args, atCall>>

\* _validate_data, the datatype conversion
ValidateDataAstype ==
    /\ pc = "astype"
    /\ stages' = Append(stages, "coerce")
    /\ before' = dataframe
    /\ IF AstypeFails(dataframe, FEATURES)
       THEN /\ Raise([type |-> "ValueError", site |-> "conversion", cause |-> "astype",
                      path |-> "", rows |-> EmptyDF])
            /\ UNCHANGED dataframe
       ELSE /\ dataframe' = Astype(dataframe, FEATURES)
            /\ pc' = "return"
            /\ UNCHANGED <<ret, first>>
    /\ UNCHANGED <<disk, args, atCall>>

\* load_excel returns
Return ==
    /\ pc = "return"
    /\ Finish([status |-> "returned",
               some   |-> args.return_output,
               value  |-> IF args.return_output THEN dataframe ELSE EmptyDF,
               error  |-> NoError], dataframe)
    /\ UNCHANGED <<disk, dataframe, args, stages, before, atCall>>

Call == \E s \in SheetNames, h \in BOOLEAN, r \in BOOLEAN : LoadExcel(s, h, r)

Next ==
    \/ Call
    \/ ToDf
    \/ FormatDfSelect
    \/ FormatDfFilter
    \/ ValidateDataMissing
    \/ ValidateDataAstype
    \/ Return

Spec == Init /\ [][Next]_vars

\* The same instance over a file with a long first sheet
InitWide ==
    /\ disk \in WideFiles
    /\ dataframe = EmptyDF
    /\ pc = "idle"
    /\ args = NoArgs
    /\ ret = NoRet
    /\ stages = <<>>
    /\ before = EmptyDF
    /\ atCall = EmptyDF
    /\ first = [set |-> FALSE, args |-> NoArgs, ret |-> NoRet, table |-> EmptyDF]

SpecWide == InitWide /\ [][Next]_vars


\* ------------------------------------------------------------ properties
CallReturned == pc = "idle" /\ ret.status = "returned"
CallRaised == pc = "idle" /\ ret.status = "raised"
CallDone == CallReturned \/ CallRaised

IsPrefix(s, t) == Len(s) <= Len(t) /\ \A i \in 1..Len(s) : s[i] = t[i]

\* A table with the declared columns in the declared order, whose cells all
\* hold a value of the declared type
Conforms(df) ==
    /\ df.columns = FeatureKeys
    /\ Len(df.index) = Len(df.data)
    /\ \A r \in 1..Len(df.data) :
         /\ Len(df.data[r]) = Len(FEATURES)
         /\ \A k \in 1..Len(FEATURES) : df.data[r][k].t = FEATURES[k].dtype

\* C1: when load_excel completes without raising, the retained table and the
\* returned table have exactly the declared columns in the declared order, no
\* cell is missing and every cell has its declared type.
C1_LoadedTableConforms ==
    CallReturned =>
        /\ Conforms(dataframe)
        /\ ret.some => Conforms(ret.value)

\* C1 witness: a load returns two rows, the conversion changed a cell's type,
\* and an earlier load had left another table in the instance.
C1_Witness ==
    /\ CallReturned
    /\ ret.some
    /\ Len(dataframe.data) = 2
    /\ before # dataframe
    /\ atCall # EmptyDF
    /\ atCall # dataframe

\* C2: right after the filter, the rows are exactly the rows that had a Name,
\* in their order, labelled 0..n-1, under the same columns; and no call ends
\* with an error in the filter stage.
C2_FilterKeepsNamedRows ==
    /\ pc = "validate" =>
         LET n == CHOOSE i \in 1..Len(before.columns) : before.columns[i] = "Name"
             HasName(row) == row[n].t # "na"
         IN  /\ dataframe.columns = before.columns
             /\ dataframe.data = SelectSeq(before.data, HasName)
             /\ dataframe.index = [j \in 1..Len(dataframe.data) |-> j - 1]
    /\ CallRaised => stages[Len(stages)] # "filter"

\* C2 witness: the filter has dropped the first of two rows, a row without a
\* Name whose quantity is not a number, and kept the second.
C2_Witness ==
    /\ pc = "validate"
    /\ Len(before.data) = 2
    /\ Len(dataframe.data) = 1
    /\ before.data[1] = <<NA, StrCell("x")>>
    /\ dataframe.data[1] = before.data[2]

\* The rows of a filtered table that miss a value outside the key column
Offending(df) ==
    { r \in 1..Len(df.data) :
        \E k \in 1..Len(df.columns) : df.columns[k] # "Name" /\ df.data[r][k].t = "na" }

\* C3, as stated: a filtered table with a missing value in a non-key column
\* makes the call fail with the missing-values error, whose message shows
\* exactly the rows that miss a value, under their labels; a filtered table
\* without a missing value passes the scan and reaches the conversion.
C3_MissingValuesRejected ==
    (pc = "idle" /\ Len(stages) >= 4) =>
        IF Offending(before) # {}
        THEN /\ ret.status = "raised"
             /\ ret.error.type = "ValueError"
             /\ ret.error.site = "missing_values"
             /\ Len(ret.error.rows.data) = Cardinality(Offending(before))
             /\ { <<ret.error.rows.index[j], ret.error.rows.data[j]>> :
                    j \in 1..Len(ret.error.rows.data) }
                = { <<before.index[r], before.data[r]>> : r \in Offending(before) }
        ELSE /\ ret.error.site # "missing_values"
             /\ stages[Len(stages)] = "coerce"

\* A filtered table holding a text that is no number in an integer column
HasUnconvertible(df) ==
    \E r \in 1..Len(df.data), k \in 1..Len(FEATURES) :
        /\ FEATURES[k].dtype = "int"
        /\ df.data[r][k].t = "str"
        /\ df.data[r][k].v \notin IntLiterals

C5_AbsentFileNotFound ==
    (disk.status = "absent" /\ pc = "idle" /\ ret.status # "none") =>
        /\ ret.status = "raised"
        /\ ret.error.type = "FileNotFoundError"
        /\ ret.error.path = file_path
        /\ stages = <<"read">>

\* C5 witness: a later call, with other arguments than the first one and
\* without the header flag, has failed on the absent file.
C5_Witness ==
    /\ disk.status = "absent"
    /\ CallRaised
    /\ first.set
    /\ first.args # args
    /\ ~args.header

\* C6: when the file exists and the read fails (corrupt file, sheet not in
\* the file), the call fails in the read with the readout error, which
\* carries the underlying exception.
C6_ReadFailureWrapped ==
    (CallDone /\ disk.status # "absent"
        /\ (disk.status = "corrupt" \/ args.sheet_name \notin {"Sheet1", "Sheet2"})) =>
        /\ ret.status = "raised"
        /\ ret.error.type = "ValueError"
        /\ ret.error.site = "readout"
        /\ ret.error.cause =
             (IF disk.status = "corrupt" THEN "BadZipFile" ELSE "WorksheetNotFound")
        /\ stages = <<"read">>

\* C6 witness: a readable file is asked for a sheet it does not hold, after a
\* call that had read a sheet.
C6_Witness ==
    /\ CallRaised
    /\ disk.status = "ok"
    /\ args.sheet_name = "Nope"
    /\ atCall # EmptyDF

\* The column names of the sheet a call names
SheetColumns(sheet_name) ==
    LET grid == disk.sheets[SheetPos(sheet_name)]
    IN  IF grid = <<>> THEN {} ELSE { grid[1][i].v : i \in 1..Len(grid[1]) }

\* C7, as stated: when the sheet lacks a declared column, the call fails with
\* a schema error or with the read's parse error.
C7_AbsentColumnIsSchemaError ==
    (CallDone /\ disk.status = "ok" /\ SheetPos(args.sheet_name) # 0
        /\ \E k \in 1..Len(FeatureKeys) : FeatureKeys[k] \notin SheetColumns(args.sheet_name)) =>
        /\ ret.status = "raised"
        /\ \/ ret.error.type = "SchemaError"
           \/ ret.error.site = "readout"

\* C8, as stated: with the header flag the first row names the columns and is
\* no data row; without it the columns are named by position and every row
\* of the sheet is a data row.
C8_HeaderFlagDecides ==
    (pc = "select" /\ disk.sheets[SheetPos(args.sheet_name)] # <<>>) =>
        LET grid == disk.sheets[SheetPos(args.sheet_name)]
        IN  IF args.header
            THEN /\ dataframe.columns = [i \in 1..Len(grid[1]) |-> grid[1][i].v]
                 /\ dataframe.data = Tail(grid)
            ELSE /\ dataframe.columns = [i \in 1..Len(grid[1]) |-> PositionalNames[i]]
                 /\ dataframe.data = grid

\* C9, as stated: a failed call returns no table and leaves no table of its
\* own in the instance: the retained table is the one the call found.
C9_FailureLeavesNoPartialTable ==
    CallRaised =>
        /\ ~ret.some
        /\ ret.value = EmptyDF
        /\ dataframe = atCall

\* C10: a finished call with the sheet name and header flag of the first
\* finished call ends as that one did: the same error, or the same table;
\* and with the same return flag too, the caller gets the same.
C10_SameInputsSameOutcome ==
    (CallDone /\ first.set
        /\ args.sheet_name = first.args.sheet_name
        /\ args.header = first.args.header) =>
        /\ ret.status = first.ret.status
        /\ ret.error = first.ret.error
        /\ ret.status = "returned" => dataframe = first.table
        /\ args.return_output = first.args.return_output => ret = first.ret

\* C10 witness: a call repeats the first call's arguments after another call
\* had left a different table in the instance, and returns a table with rows.
C10_Witness ==
    /\ CallReturned
    /\ first.set
    /\ args = first.args
    /\ Len(dataframe.data) >= 1
    /\ atCall # EmptyDF
    /\ atCall # dataframe

====
